---- MODULE Spec2Model ----
(***************************************************************************)
(* doo: a dependency-aware job scheduler (src/doo.go, src/runner.go).      *)
(*                                                                         *)
(* The model follows main(): the loaded targets are validated              *)
(* (validateTargets), the job graph is built from the requested targets    *)
(* (createStartJob / createStopJob), and runAllJobs dispatches jobs onto   *)
(* worker goroutines and drains the completion channel.                    *)
(***************************************************************************)
EXTENDS Integers, Sequences, FiniteSets, TLC

\* Number of dependency and invokes entries a configuration may hold in all.
MaxEdges == 2

\* Job.mode (src/doo.go:31-36)
TargetStart == 0
TargetStop == 1

\* Names of the targets of the configurations explored, and a name that no
\* target has (a reference to it is a reference to an unknown target).
TargetNames == <<"a", "b", "c">>
Unknown == "x"
NameOrder == TargetNames \o <<Unknown>>
Names == {TargetNames[i] : i \in 1..Len(TargetNames)}

VARIABLES
    targets,            \* d.targets: the loaded targets, in load order
    targetMap,          \* d.targetMap: name -> index into targets
    dependants,         \* Target.dependants, per index into targets
    errs,               \* the errors validateTargets reported
    stop,               \* --stop
    ignoreDependencies, \* d.ignoreDependencies (--only)
    expandedTargets,    \* the requested targets, after expandTargets
    jobs,               \* d.jobs: name -> Job
    startedJobs,        \* d.startedJobs
    completedJobs,      \* d.completedJobs
    didError,           \* d.didError
    isExclusiveRunning, \* d.isExclusiveRunning
    completion,         \* jobs whose worker is blocked in d.completion <- job
    pc,                 \* where main() is
    allocated,          \* history: number of new(Job) per name
    dispatched,         \* history: number of startJob calls per name
    processed,          \* history: names whose job was handed to didComplete
    rj                  \* one execution of runJob(job), seen from inside

vars == <<targets, targetMap, dependants, errs, stop, ignoreDependencies,
          expandedTargets, jobs, startedJobs, completedJobs, didError,
          isExclusiveRunning, completion, pc, allocated, dispatched, processed,
          rj>>

\* The state of the scheduler.
schedulerVars ==
    <<targets, targetMap, dependants, errs, stop, ignoreDependencies,
      expandedTargets, jobs, startedJobs, completedJobs, didError,
      isExclusiveRunning, completion, pc, allocated, dispatched, processed>>

----------------------------------------------------------------------------
\* Generic helpers

\* The names of S in the order of NameOrder.
SeqOf(S) == SelectSeq(NameOrder, LAMBDA n : n \in S)

Range(s) == {s[i] : i \in 1..Len(s)}

EmptyMap == [n \in {} |-> 0]

----------------------------------------------------------------------------
\* Configurations

\* isValidRunner: the keys of the runners table
Runners == {"shell", "tmux", "launchd"}

isValidRunner(str) == str \in Runners

\* Target.isExclusive
isExclusive(t) == t.Runner = "shell"

\* The entries a configuration may hold: a dependency of a target on any
\* target (itself included), an invokes entry naming another target, and,
\* for the first target, a dependency on and an invokes entry for a name
\* that no target has.
AllEdges ==
    [from : Names, kind : {"dep"}, to : Names]
    \cup {e \in [from : Names, kind : {"inv"}, to : Names] : e.from # e.to}
    \cup [from : {TargetNames[1]}, kind : {"dep", "inv"}, to : {Unknown}]

\* The sets of targets that run under the shell runner: the first n targets,
\* for every n (the configurations are closed under renaming the targets).
ShellSets == {{TargetNames[i] : i \in 1..n} : n \in 0..Len(TargetNames)}

RECURSIVE EdgeSetsUpTo(_)
EdgeSetsUpTo(k) ==
    IF k = 0 THEN {{}}
    ELSE LET P == EdgeSetsUpTo(k - 1)
         IN  P \cup {S \cup {e} : S \in P, e \in AllEdges}

\* The targets a configuration declares: every target has a command, its
\* runner is shell for the names in shells and tmux otherwise, and its
\* Dependencies and Invokes lists are the edges of E that leave it.
Catalog(E, shells) ==
    [i \in 1..Len(TargetNames) |->
        LET n == TargetNames[i] IN
        [Name         |-> n,
         Dependencies |-> SeqOf({e.to : e \in {f \in E : f.from = n /\ f.kind = "dep"}}),
         Invokes      |-> SeqOf({e.to : e \in {f \in E : f.from = n /\ f.kind = "inv"}}),
         Runner       |-> IF n \in shells THEN "shell" ELSE "tmux",
         Command      |-> "cmd",
         config       |-> 1]]

----------------------------------------------------------------------------
\* validateTargets

\* First loop: build targetMap, one error per problem found.
RECURSIVE BuildTargetMap(_, _, _)
BuildTargetMap(ts, i, st) ==
    IF i > Len(ts) THEN st
    ELSE
        LET t == ts[i]
            name == t.Name
        IN
        IF name = "" THEN
            BuildTargetMap(ts, i + 1,
                [st EXCEPT !.errs = Append(@, [kind |-> "noname", at |-> i])])
        ELSE
            LET e1 == IF name \in DOMAIN st.targetMap
                      THEN IF ts[st.targetMap[name]].config = t.config
                           THEN <<[kind |-> "duplicate", at |-> i]>>
                           ELSE <<[kind |-> "duplicate2", at |-> i]>>
                      ELSE <<>>
                e2 == IF ~isValidRunner(t.Runner)
                      THEN <<[kind |-> "runner", at |-> i]>>
                      ELSE IF t.Runner # "shell" /\ t.Command = ""
                           THEN <<[kind |-> "command", at |-> i]>>
                           ELSE <<>>
                tm == [n \in DOMAIN st.targetMap \cup {name} |->
                          IF n = name THEN i ELSE st.targetMap[n]]
            IN
            BuildTargetMap(ts, i + 1,
                [st EXCEPT !.errs = @ \o e1 \o e2, !.targetMap = tm])

\* Second loop, one target: record the target at i as a dependant of each of
\* its dependencies that resolves, report the others.
RECURSIVE SetUpDependantsOf(_, _, _, _)
SetUpDependantsOf(ts, i, k, st) ==
    IF k > Len(ts[i].Dependencies) THEN st
    ELSE
        LET dep == ts[i].Dependencies[k] IN
        IF dep \in DOMAIN st.targetMap
        THEN SetUpDependantsOf(ts, i, k + 1,
                [st EXCEPT !.dependants[st.targetMap[dep]] = Append(@, i)])
        ELSE SetUpDependantsOf(ts, i, k + 1,
                [st EXCEPT !.errs = Append(@, [kind |-> "unknown", at |-> i, dep |-> dep])])

RECURSIVE SetUpDependants(_, _, _)
SetUpDependants(ts, i, st) ==
    IF i > Len(ts) THEN st
    ELSE SetUpDependants(ts, i + 1, SetUpDependantsOf(ts, i, 1, st))

\* validateTargets returning at its first error.
validateTargets_StopAtFirst(ts) ==
    LET v == SetUpDependants(ts, 1,
                 BuildTargetMap(ts, 1,
                     [targetMap  |-> EmptyMap,
                      errs       |-> <<>>,
                      dependants |-> [i \in 1..Len(ts) |-> <<>>]]))
    IN  [v EXCEPT !.errs = IF Len(@) > 1 THEN <<Head(@)>> ELSE @]

validateTargets(ts) ==
    SetUpDependants(ts, 1,
        BuildTargetMap(ts, 1,
            [targetMap  |-> EmptyMap,
             errs       |-> <<>>,
             dependants |-> [i \in 1..Len(ts) |-> <<>>]]))

----------------------------------------------------------------------------
\* Job graph builder

Put(f, k, v) == [n \in DOMAIN f \cup {k} |-> IF n = k THEN v ELSE f[n]]

\* new(Job), with job.mode and job.target set; target 0 is the nil pointer
\* that d.targetMap[name] yields for a name it does not hold.
NewJob(name, mode) ==
    [target          |-> IF name \in DOMAIN targetMap THEN targetMap[name] ELSE 0,
     mode            |-> mode,
     dependencyCount |-> 0,
     dependentJobs   |-> <<>>,
     startedAt       |-> FALSE,
     completedAt     |-> FALSE,
     err             |-> FALSE]

addJobDependency(js, from, to) ==
    [js EXCEPT ![from].dependencyCount = @ + 1,
               ![to].dependentJobs = Append(@, from)]

\* The builder works on st = [jobs, allocated, panicked]; panicked is set by
\* the nil dereference of target.Dependencies (target.dependants) when name
\* is not in d.targetMap, which ends the process.
RECURSIVE createStartJob(_, _)
RECURSIVE createStartJobDeps(_, _, _)
\* createStartJob without the test of d.ignoreDependencies.
createStartJob_AlwaysDependencies(st, name) ==
    IF st.panicked \/ name \in DOMAIN st.jobs THEN st
    ELSE
        LET st1 == [st EXCEPT !.jobs = Put(@, name, NewJob(name, TargetStart)),
                              !.allocated[name] = @ + 1]
        IN
        IF name \notin DOMAIN targetMap THEN [st1 EXCEPT !.panicked = TRUE]
        ELSE createStartJobDeps(st1, name, 1)

createStartJob(st, name) ==
    IF st.panicked \/ name \in DOMAIN st.jobs THEN st
    ELSE
        LET st1 == [st EXCEPT !.jobs = Put(@, name, NewJob(name, TargetStart)),
                              !.allocated[name] = @ + 1]
        IN
        IF name \notin DOMAIN targetMap THEN [st1 EXCEPT !.panicked = TRUE]
        ELSE IF ignoreDependencies \/ Len(targets[targetMap[name]].Dependencies) = 0
             THEN st1
             ELSE createStartJobDeps(st1, name, 1)

\* The loop of createStartJob, recording no edge to a dependency whose job
\* exists already.
createStartJobDeps_SkipExisting(st, name, k) ==
    LET deps == targets[targetMap[name]].Dependencies IN
    IF st.panicked \/ k > Len(deps) THEN st
    ELSE
        LET st1 == createStartJob(st, deps[k]) IN
        IF st1.panicked THEN st1
        ELSE createStartJobDeps(
                IF deps[k] \in DOMAIN st.jobs THEN st1
                ELSE [st1 EXCEPT !.jobs = addJobDependency(@, name, deps[k])],
                name, k + 1)

createStartJobDeps(st, name, k) ==
    LET deps == targets[targetMap[name]].Dependencies IN
    IF st.panicked \/ k > Len(deps) THEN st
    ELSE
        LET st1 == createStartJob(st, deps[k]) IN
        IF st1.panicked THEN st1
        ELSE createStartJobDeps(
                [st1 EXCEPT !.jobs = addJobDependency(@, name, deps[k])], name, k + 1)

RECURSIVE createStopJob(_, _)
RECURSIVE createStopJobDeps(_, _, _)
createStopJob(st, name) ==
    IF st.panicked \/ name \in DOMAIN st.jobs THEN st
    ELSE
        LET st1 == [st EXCEPT !.jobs = Put(@, name, NewJob(name, TargetStop)),
                              !.allocated[name] = @ + 1]
        IN
        IF name \notin DOMAIN targetMap THEN [st1 EXCEPT !.panicked = TRUE]
        ELSE IF ignoreDependencies THEN st1
             ELSE createStopJobDeps(st1, name, 1)

\* The loop of createStopJob with the arguments of addJobDependency swapped.
createStopJobDeps_SwappedEdge(st, name, k) ==
    LET others == dependants[targetMap[name]] IN
    IF st.panicked \/ k > Len(others) THEN st
    ELSE
        LET other == targets[others[k]].Name
            st1 == createStopJob(st, other)
        IN
        IF st1.panicked THEN st1
        ELSE createStopJobDeps(
                [st1 EXCEPT !.jobs = addJobDependency(@, other, name)], name, k + 1)

\* The loop of createStopJob, ranging over target.Dependencies instead of
\* target.dependants.
createStopJobDeps_OverDependencies(st, name, k) ==
    LET others == targets[targetMap[name]].Dependencies IN
    IF st.panicked \/ k > Len(others) THEN st
    ELSE
        LET other == others[k]
            st1 == createStopJob(st, other)
        IN
        IF st1.panicked THEN st1
        ELSE createStopJobDeps(
                [st1 EXCEPT !.jobs = addJobDependency(@, name, other)], name, k + 1)

createStopJobDeps(st, name, k) ==
    LET others == dependants[targetMap[name]] IN
    IF st.panicked \/ k > Len(others) THEN st
    ELSE
        LET other == targets[others[k]].Name
            st1 == createStopJob(st, other)
        IN
        IF st1.panicked THEN st1
        ELSE createStopJobDeps(
                [st1 EXCEPT !.jobs = addJobDependency(@, name, other)], name, k + 1)

\* for _, name := range names { d.createStartJob(name) } (or createStopJob)
RECURSIVE createJobs(_, _, _, _)
createJobs(st, names, k, mode) ==
    IF st.panicked \/ k > Len(names) THEN st
    ELSE createJobs(IF mode = TargetStop THEN createStopJob(st, names[k])
                                         ELSE createStartJob(st, names[k]),
                    names, k + 1, mode)

----------------------------------------------------------------------------
\* Scheduler

hasRunningJobs == startedJobs > completedJobs

\* hasCompleted comparing with d.startedJobs instead of len(d.jobs).
hasCompleted_OfStarted == completedJobs = startedJobs

hasCompleted == completedJobs = Cardinality(DOMAIN jobs)

JobTarget(j) == targets[jobs[j].target]

\* The loop of runAllJobs without the test of d.didError.
loopContinues_IgnoreError == ~hasCompleted

\* The two tests at the top of the loop of runAllJobs: the loop goes on
\* while no error was seen and some job has not completed.
loopContinues == ~didError /\ ~hasCompleted

\* nextJob without the test of dependencyCount.
NextJobs_IgnoreDependencyCount ==
    IF isExclusiveRunning THEN {}
    ELSE {j \in DOMAIN jobs :
            /\ ~jobs[j].startedAt
            /\ ~(isExclusive(targets[jobs[j].target]) /\ hasRunningJobs)}

\* nextJob without the test of d.isExclusiveRunning.
NextJobs_IgnoreExclusiveRunning ==
    {j \in DOMAIN jobs :
        /\ ~jobs[j].startedAt
        /\ ~(jobs[j].dependencyCount > 0)
        /\ ~(isExclusive(targets[jobs[j].target]) /\ hasRunningJobs)}

\* nextJob without the test of startedAt.
NextJobs_IgnoreStarted ==
    IF isExclusiveRunning THEN {}
    ELSE {j \in DOMAIN jobs :
            /\ ~(jobs[j].dependencyCount > 0)
            /\ ~(isExclusive(targets[jobs[j].target]) /\ hasRunningJobs)}

\* nextJob skipping the jobs that completed instead of the started ones.
NextJobsOf_SkipCompleted(js) ==
    IF isExclusiveRunning THEN {}
    ELSE {j \in DOMAIN js :
            /\ ~js[j].completedAt
            /\ ~(js[j].dependencyCount > 0)
            /\ ~(isExclusive(targets[js[j].target]) /\ hasRunningJobs)}

\* The jobs of the map js that pass the three tests of nextJob.
NextJobsOf(js) ==
    IF isExclusiveRunning THEN {}
    ELSE {j \in DOMAIN js :
            /\ ~js[j].startedAt
            /\ ~(js[j].dependencyCount > 0)
            /\ ~(isExclusive(targets[js[j].target]) /\ hasRunningJobs)}

\* nextJob returns the first job of a range over the map d.jobs that passes
\* its three tests; the order of a range over a map is not specified, so it
\* may return any of the jobs below, and nil when there is none.
NextJobs == NextJobsOf(jobs)

\* runJob: nil without a command, the result of the runner otherwise; the
\* stop of the shell runner always returns nil.  TRUE stands for an error.
runJob(job) ==
    IF targets[job.target].Command = "" THEN {FALSE}
    ELSE IF job.mode = TargetStop /\ targets[job.target].Runner = "shell" THEN {FALSE}
    ELSE BOOLEAN

\* for _, other := range job.dependentJobs { other.dependencyCount-- }
RECURSIVE decrementDependents(_, _, _)
decrementDependents(js, others, k) ==
    IF k > Len(others) THEN js
    ELSE decrementDependents(
            [js EXCEPT ![others[k]].dependencyCount = @ - 1], others, k + 1)

\* didComplete expanding Invokes only when the job has no error.
didCompleteJobs_OnlyOnSuccess(j) ==
    LET js == decrementDependents(jobs, jobs[j].dependentJobs, 1)
        st == [jobs |-> js, allocated |-> allocated, panicked |-> FALSE]
    IN  IF jobs[j].mode = TargetStart /\ ~jobs[j].err
        THEN createJobs(st, JobTarget(j).Invokes, 1, TargetStart)
        ELSE st

\* The job map after didComplete(job): st = [jobs, allocated, panicked].
didCompleteJobs(j) ==
    LET js == decrementDependents(jobs, jobs[j].dependentJobs, 1)
        st == [jobs |-> js, allocated |-> allocated, panicked |-> FALSE]
    IN  IF jobs[j].mode = TargetStart
        THEN createJobs(st, JobTarget(j).Invokes, 1, TargetStart)
        ELSE st

----------------------------------------------------------------------------
\* runJob and the runners (src/runner.go)

\* Lengths of the Listens lists explored, and the number of times the
\* bootout of launchd may answer "operation now in progress" in a row.
MaxListens == 2
MaxInProgress == 3

\* The statuses that launchdRunner tests for, and the number of attempts of
\* the readiness probe.
AlreadyLoaded == 34048
InProgress == 9216
NoSuchProcess == 768
ProbeAttempts == 10

\* Addresses are strings, modelled as sequences of characters: a path of a
\* socket file and a host:port address.
PathAddr == <<"/", "s">>
TcpAddr == <<"h", ":", "1">>
Addresses == {PathAddr, TcpAddr}

RECURSIVE SeqsUpTo(_, _)
SeqsUpTo(S, n) ==
    IF n = 0 THEN {<<>>}
    ELSE LET P == SeqsUpTo(S, n - 1)
         IN  P \cup {Append(q, x) : q \in P, x \in S}

\* What the file system answers to os.Stat and the network to
\* net.DialTimeout.
StatOutcomes == {"exists", "notexist", "denied"}
DialOutcomes == {"connected", "refused", "timeout"}

\* The exit statuses of launchctl explored: success, the three statuses the
\* runner knows, and another failure.
Statuses == {0, AlreadyLoaded, InProgress, NoSuchProcess, 256}

\* expSleepTime, in milliseconds.
RECURSIVE expSleepTimeLoop(_, _)
expSleepTimeLoop(res, i) ==
    IF i > 0 THEN expSleepTimeLoop(res * 2, i - 1) ELSE res

\* expSleepTime with a loop that runs once more (i >= 0).
expSleepTime_OnceMore(i) == expSleepTimeLoop(50, i + 1)

expSleepTime(i) == expSleepTimeLoop(50, i)

\* checkListens with every dial error taken for "not listening yet".
checkListens_RetryAnyError(addr, outcome) ==
    IF addr[1] = "/"
    THEN [listens |-> outcome # "notexist", err |-> FALSE]
    ELSE [listens |-> outcome = "connected", err |-> FALSE]

\* checkListens(addr): (listens, err), for the answer outcome of the system.
checkListens(addr, outcome) ==
    IF addr[1] = "/"
    THEN [listens |-> outcome # "notexist", err |-> FALSE]
    ELSE IF outcome = "refused"
         THEN [listens |-> FALSE, err |-> FALSE]
         ELSE [listens |-> TRUE, err |-> outcome # "connected"]

\* The error of combinedOutputError(cmd) (cmd.Run) for an exit status.
exitError(status) == IF status = 0 THEN "" ELSE "exit"

\* The error launchdRunner.start returns for the status of bootstrap.
bootstrapError(status) ==
    IF status = AlreadyLoaded THEN "" ELSE exitError(status)

\* The error of launchdRunner.stop without the test for "no such process".
bootoutError_NoSuchProcessFails(status) == exitError(status)

\* The error launchdRunner.stop returns for the last status of bootout.
bootoutError(status) ==
    IF status = NoSuchProcess THEN "" ELSE exitError(status)

\* rj when no execution of runJob is followed.
RunJobIdle ==
    [target |-> [Runner |-> "", Command |-> "", Listens |-> <<>>],
     mode |-> TargetStart, at |-> "idle", k |-> 0, i |-> 0,
     probes |-> <<>>, sleeps |-> <<>>, statuses |-> <<>>, err |-> ""]

\* return err: err is "" for nil.
RunJobReturn(err) == rj' = [rj EXCEPT !.at = "done", !.err = err]

\* runner.start returned: its error is returned, and without error the
\* loop over job.target.Listens begins.
RunJobStarted(status, err) ==
    rj' = [rj EXCEPT !.at = IF err = "" THEN "probe" ELSE "done",
                     !.err = err, !.k = 1, !.i = 0,
                     !.statuses = IF status < 0 THEN @ ELSE Append(@, status)]

\* The head of runJob: nothing to do without a command, else the runner.
RunJobBegin ==
    /\ rj.at = "begin"
    /\ rj' = [rj EXCEPT !.at = IF rj.target.Command = "" THEN "done"
                               ELSE IF rj.mode = TargetStop THEN "stop"
                               ELSE "start"]
    /\ UNCHANGED schedulerVars

\* shellRunner.start: the error of cmd.Run.
ShellStart(status) ==
    /\ rj.at = "start" /\ rj.target.Runner = "shell"
    /\ RunJobStarted(-1, exitError(status))
    /\ UNCHANGED schedulerVars

\* shellRunner.stop
ShellStop ==
    /\ rj.at = "stop" /\ rj.target.Runner = "shell"
    /\ RunJobReturn("")
    /\ UNCHANGED schedulerVars

\* tmuxRunner.start: nothing to do when the session exists, else the error
\* of new-session.
TmuxStart(exists, status) ==
    /\ rj.at = "start" /\ rj.target.Runner = "tmux"
    /\ RunJobStarted(-1, IF exists THEN "" ELSE exitError(status))
    /\ UNCHANGED schedulerVars

\* tmuxRunner.stop: nothing to do without a session, else the error of
\* kill-session.
TmuxStop(exists, status) ==
    /\ rj.at = "stop" /\ rj.target.Runner = "tmux"
    /\ RunJobReturn(IF exists THEN exitError(status) ELSE "")
    /\ UNCHANGED schedulerVars

\* launchdRunner.start: the error of user.Current, else the error of
\* launchctl bootstrap, dropped for the status "already loaded". When
\* launchctl could not be run (ran is false) there is no ProcessState, and
\* cmd.ProcessState.Sys() dereferences nil.
LaunchdStart(userOk, ran, status) ==
    /\ rj.at = "start" /\ rj.target.Runner = "launchd"
    /\ IF ~userOk THEN RunJobStarted(-1, "user")
       ELSE IF ~ran THEN rj' = [rj EXCEPT !.at = "panic"]
       ELSE RunJobStarted(status, bootstrapError(status))
    /\ UNCHANGED schedulerVars

\* The head of launchdRunner.stop: findLabel and user.Current.
LaunchdStop(labelOk, userOk) ==
    /\ rj.at = "stop" /\ rj.target.Runner = "launchd"
    /\ IF ~labelOk THEN RunJobReturn("exit")
       ELSE IF ~userOk THEN RunJobReturn("user")
       ELSE rj' = [rj EXCEPT !.at = "bootout", !.i = 0]
    /\ UNCHANGED schedulerVars

\* One turn of the loop of launchdRunner.stop: launchctl bootout exits
\* with status, or could not be run (ran is false) and
\* cmd.ProcessState.Sys() dereferences nil.
LaunchdBootout(ran, status) ==
    /\ rj.at = "bootout"
    /\ (ran /\ status = InProgress) => rj.i < MaxInProgress
    /\ IF ~ran THEN rj' = [rj EXCEPT !.at = "panic"]
       ELSE IF status = InProgress
       THEN rj' = [rj EXCEPT !.i = @ + 1,
                             !.statuses = Append(@, status),
                             !.sleeps = Append(@, expSleepTime(rj.i))]
       ELSE rj' = [rj EXCEPT !.at = "done",
                             !.statuses = Append(@, status),
                             !.err = bootoutError(status)]
    /\ UNCHANGED schedulerVars

\* One turn of the inner loop of runJob for the address at k: the tenth
\* turn gives up; before, checkListens is called, its error is returned, a
\* listening address ends the loop, and otherwise the loop sleeps.
Probe(outcome) ==
    /\ rj.at = "probe"
    /\ rj.k <= Len(rj.target.Listens)
    /\ LET addr == rj.target.Listens[rj.k] IN
       IF rj.i >= ProbeAttempts
       THEN /\ outcome = "none"
            /\ RunJobReturn("nolisten")
       ELSE /\ outcome \in (IF addr[1] = "/" THEN StatOutcomes ELSE DialOutcomes)
            /\ LET r == checkListens(addr, outcome)
                   p == [k |-> rj.k, i |-> rj.i, outcome |-> outcome,
                         listens |-> r.listens, err |-> r.err]
               IN
               IF r.err
               THEN rj' = [rj EXCEPT !.at = "done", !.err = "dial",
                                     !.probes = Append(@, p)]
               ELSE IF r.listens
               THEN rj' = [rj EXCEPT !.k = @ + 1, !.i = 0,
                                     !.probes = Append(@, p)]
               ELSE rj' = [rj EXCEPT !.i = @ + 1,
                                     !.probes = Append(@, p),
                                     !.sleeps = Append(@, expSleepTime(rj.i))]
    /\ UNCHANGED schedulerVars

\* The end of the loop over Listens: return nil.
ProbesDone ==
    /\ rj.at = "probe"
    /\ rj.k > Len(rj.target.Listens)
    /\ RunJobReturn("")
    /\ UNCHANGED schedulerVars

\* runJob is called for a job of any runner, with or without a command,
\* with any Listens list; the scheduler is left out.
RunJobInit ==
    /\ targets = <<>>
    /\ targetMap = EmptyMap
    /\ dependants = <<>>
    /\ errs = <<>>
    /\ stop \in BOOLEAN
    /\ ignoreDependencies = FALSE
    /\ expandedTargets = <<>>
    /\ jobs = EmptyMap
    /\ startedJobs = 0
    /\ completedJobs = 0
    /\ didError = FALSE
    /\ isExclusiveRunning = FALSE
    /\ completion = {}
    /\ pc = "run"
    /\ allocated = [n \in Range(NameOrder) |-> 0]
    /\ dispatched = [n \in Range(NameOrder) |-> 0]
    /\ processed = {}
    /\ \E r \in Runners, c \in {"", "cmd"}, l \in SeqsUpTo(Addresses, MaxListens) :
          rj = [RunJobIdle EXCEPT
                  !.target = [Runner |-> r, Command |-> c, Listens |-> l],
                  !.mode = IF stop THEN TargetStop ELSE TargetStart,
                  !.at = "begin"]

RunJobNext ==
    \/ RunJobBegin
    \/ \E status \in Statuses : ShellStart(status)
    \/ ShellStop
    \/ \E exists \in BOOLEAN, status \in Statuses : TmuxStart(exists, status)
    \/ \E exists \in BOOLEAN, status \in Statuses : TmuxStop(exists, status)
    \/ \E userOk \in BOOLEAN, ran \in BOOLEAN, status \in Statuses :
          LaunchdStart(userOk, ran, status)
    \/ \E labelOk \in BOOLEAN, userOk \in BOOLEAN : LaunchdStop(labelOk, userOk)
    \/ \E ran \in BOOLEAN, status \in Statuses : LaunchdBootout(ran, status)
    \/ \E outcome \in StatOutcomes \cup DialOutcomes \cup {"none"} : Probe(outcome)
    \/ ProbesDone

RunJobSpec == RunJobInit /\ [][RunJobNext]_vars

----------------------------------------------------------------------------
\* main

Init ==
    /\ \E E \in EdgeSetsUpTo(MaxEdges), shells \in ShellSets :
          targets = Catalog(E, shells)
    /\ targetMap = EmptyMap
    /\ dependants = [i \in 1..Len(TargetNames) |-> <<>>]
    /\ errs = <<>>
    /\ stop \in BOOLEAN
    /\ ignoreDependencies \in BOOLEAN
    /\ \E R \in (SUBSET Names) \ {{}} : expandedTargets = SeqOf(R)
    /\ jobs = EmptyMap
    /\ startedJobs = 0
    /\ completedJobs = 0
    /\ didError = FALSE
    /\ isExclusiveRunning = FALSE
    /\ completion = {}
    /\ pc = "validate"
    /\ allocated = [n \in Range(NameOrder) |-> 0]
    /\ dispatched = [n \in Range(NameOrder) |-> 0]
    /\ processed = {}
    /\ rj = RunJobIdle

\* d.validateTargets(&errs); if len(errs) > 0 { ...; os.Exit(1) }
Validate ==
    /\ pc = "validate"
    /\ LET v == validateTargets(targets) IN
        /\ targetMap' = v.targetMap
        /\ dependants' = v.dependants
        /\ errs' = v.errs
        /\ pc' = IF Len(v.errs) > 0 THEN "invalid" ELSE "create"
    /\ UNCHANGED <<rj, targets, stop, ignoreDependencies, expandedTargets, jobs,
                   startedJobs, completedJobs, didError, isExclusiveRunning,
                   completion, allocated, dispatched, processed>>

\* The loop over expandedTargets that builds the job graph.
CreateJobs ==
    /\ pc = "create"
    /\ LET st == createJobs([jobs |-> jobs, allocated |-> allocated, panicked |-> FALSE],
                            expandedTargets, 1,
                            IF stop THEN TargetStop ELSE TargetStart)
       IN
        /\ jobs' = st.jobs
        /\ allocated' = st.allocated
        /\ pc' = IF st.panicked THEN "panic" ELSE "run"
    /\ UNCHANGED <<rj, targets, targetMap, dependants, errs, stop, ignoreDependencies,
                   expandedTargets, startedJobs, completedJobs, didError,
                   isExclusiveRunning, completion, dispatched, processed>>

\* An iteration of runAllJobs in which nextJob returns j: startJob(j).
StartJob(j) ==
    /\ pc = "run"
    /\ loopContinues
    /\ j \in NextJobs
    /\ jobs' = [jobs EXCEPT ![j].startedAt = TRUE]
    /\ startedJobs' = startedJobs + 1
    /\ isExclusiveRunning' = IF isExclusive(JobTarget(j)) THEN TRUE ELSE isExclusiveRunning
    /\ dispatched' = [dispatched EXCEPT ![j] = @ + 1]
    /\ UNCHANGED <<rj, targets, targetMap, dependants, errs, stop, ignoreDependencies,
                   expandedTargets, completedJobs, didError, completion, pc,
                   allocated, processed>>

\* The goroutine of startJob: runJob returns, completedAt and err are set,
\* and the goroutine blocks sending the job on d.completion.
Worker(j, e) ==
    /\ pc \in {"run", "returned"}
    /\ j \in DOMAIN jobs
    /\ jobs[j].startedAt
    /\ ~jobs[j].completedAt
    /\ e \in runJob(jobs[j])
    /\ jobs' = [jobs EXCEPT ![j].completedAt = TRUE, ![j].err = e]
    /\ completion' = completion \cup {j}
    /\ UNCHANGED <<rj, targets, targetMap, dependants, errs, stop, ignoreDependencies,
                   expandedTargets, startedJobs, completedJobs, didError,
                   isExclusiveRunning, pc, allocated, dispatched, processed>>

\* An iteration of runAllJobs in which nextJob returns nil and a job is
\* running: job = <-d.completion; d.didComplete(job).
Receive(j) ==
    /\ pc = "run"
    /\ loopContinues
    /\ NextJobs = {}
    /\ hasRunningJobs
    /\ j \in completion
    /\ completion' = completion \ {j}
    /\ completedJobs' = completedJobs + 1
    /\ isExclusiveRunning' = IF isExclusive(JobTarget(j)) THEN FALSE ELSE isExclusiveRunning
    /\ didError' = IF jobs[j].err THEN TRUE ELSE didError
    /\ processed' = processed \cup {j}
    /\ LET st == didCompleteJobs(j) IN
        /\ jobs' = st.jobs
        /\ allocated' = st.allocated
        /\ pc' = IF st.panicked THEN "panic" ELSE pc
    /\ UNCHANGED <<rj, targets, targetMap, dependants, errs, stop, ignoreDependencies,
                   expandedTargets, startedJobs, dispatched>>

\* runAllJobs leaves its loop: an error was seen, every job completed, or
\* no job can be started and none is running.
Return ==
    /\ pc = "run"
    /\ \/ ~loopContinues
       \/ (NextJobs = {} /\ ~hasRunningJobs)
    /\ pc' = "returned"
    /\ UNCHANGED <<rj, targets, targetMap, dependants, errs, stop, ignoreDependencies,
                   expandedTargets, jobs, startedJobs, completedJobs, didError,
                   isExclusiveRunning, completion, allocated, dispatched, processed>>

\* The end of main: exit 1 after an error, the deadlock message (and exit 1)
\* when not every job completed, a normal return otherwise.
Exit ==
    /\ pc = "returned"
    /\ pc' = IF didError THEN "failed"
             ELSE IF ~hasCompleted THEN "deadlocked"
             ELSE "ok"
    /\ UNCHANGED <<rj, targets, targetMap, dependants, errs, stop, ignoreDependencies,
                   expandedTargets, jobs, startedJobs, completedJobs, didError,
                   isExclusiveRunning, completion, allocated, dispatched, processed>>

Next ==
    \/ Validate
    \/ CreateJobs
    \/ \E j \in Range(NameOrder) : StartJob(j)
    \/ \E j \in Range(NameOrder), e \in BOOLEAN : Worker(j, e)
    \/ \E j \in Range(NameOrder) : Receive(j)
    \/ Return
    \/ Exit

Spec == Init /\ [][Next]_vars

----------------------------------------------------------------------------
\* validateTargets over arbitrary lists of targets

\* Lengths of the target lists explored, and the number of dependency
\* entries in a list.
MaxTargets == 2
MaxDeps == 2

\* Names, runners with commands, and names of dependencies of the targets
\* of these lists: "" is a missing name or command, "bogus" is no runner,
\* and "x" is the name of no target.
AnyNames == {"", "a", "b"}
AnyRunners == {<<"shell", "">>, <<"tmux", "">>, <<"tmux", "cmd">>, <<"bogus", "">>}
AnyDependencies == {"a", Unknown}

\* The lists of n Dependencies lists with at most total entries altogether.
RECURSIVE DependencyLists(_, _)
DependencyLists(n, total) ==
    IF n = 0 THEN {<<>>}
    ELSE UNION {{<<d>> \o rest : rest \in DependencyLists(n - 1, total - Len(d))} :
                  d \in SeqsUpTo(AnyDependencies, total)}

\* The lists of targets with the given names. All are loaded from one
\* file, except that a second target with the name of the first may also
\* come from another file: validateTargets compares the files of targets
\* of the same name only.
TargetLists(names) ==
    LET n == Len(names) IN
    {[i \in 1..n |->
        [Name         |-> names[i],
         Dependencies |-> deps[i],
         Invokes      |-> <<>>,
         Runner       |-> rs[i][1],
         Command      |-> rs[i][2],
         config       |-> IF i = 2 THEN c ELSE 1]] :
       rs \in [1..n -> AnyRunners],
       deps \in DependencyLists(n, MaxDeps),
       c \in IF n >= 2 /\ names[1] = names[2] THEN {1, 2} ELSE {1}}

\* main up to the call of validateTargets, with any list of targets loaded.
ValidatorInit ==
    /\ \E names \in SeqsUpTo(AnyNames, MaxTargets) : targets \in TargetLists(names)
    /\ targetMap = EmptyMap
    /\ dependants = [i \in 1..Len(targets) |-> <<>>]
    /\ errs = <<>>
    /\ stop = FALSE
    /\ ignoreDependencies = FALSE
    /\ expandedTargets = <<>>
    /\ jobs = EmptyMap
    /\ startedJobs = 0
    /\ completedJobs = 0
    /\ didError = FALSE
    /\ isExclusiveRunning = FALSE
    /\ completion = {}
    /\ pc = "validate"
    /\ allocated = [n \in Range(NameOrder) |-> 0]
    /\ dispatched = [n \in Range(NameOrder) |-> 0]
    /\ processed = {}
    /\ rj = RunJobIdle

ValidatorNext == Validate

ValidatorSpec == ValidatorInit /\ [][ValidatorNext]_vars


----------------------------------------------------------------------------
\* Vocabulary of the properties

\* The job graph has been built and runAllJobs was entered.
Built == pc \in {"run", "returned", "ok", "failed", "deadlocked", "panic"}

Started(j) == j \in DOMAIN jobs /\ jobs[j].startedAt

\* Dispatched, and its completion not yet processed by didComplete.
InFlight(j) == Started(j) /\ j \notin processed

DependenciesOf(n) == Range(targets[targetMap[n]].Dependencies)

InvokesOf(n) == Range(targets[targetMap[n]].Invokes)

\* The targets that list n in their Dependencies.
DependantsOf(n) ==
    {targets[i].Name : i \in {k \in 1..Len(targets) : n \in Range(targets[k].Dependencies)}}

ExclusiveJob(j) == jobs[j].target # 0 /\ isExclusive(targets[jobs[j].target])

----------------------------------------------------------------------------
\* C1: in a start run without --only, every job that is dispatched has, for
\* every target named in its Dependencies, a job whose completion the
\* controller had already processed (didComplete) when it was dispatched.
C1_DependenciesCompleteBeforeStart ==
    (Built /\ ~stop /\ ~ignoreDependencies) =>
        \A j \in DOMAIN jobs :
            jobs[j].startedAt =>
                \A dep \in DependenciesOf(j) :
                    dep \in DOMAIN jobs /\ dep \in processed

\* A job that an Invokes expansion added, and that has a dependency, was
\* dispatched in a start run.
C1_Witness ==
    /\ ~stop /\ ~ignoreDependencies
    /\ \E j \in DOMAIN jobs :
          /\ jobs[j].startedAt
          /\ DependenciesOf(j) # {}
          /\ j \notin Range(expandedTargets)
          /\ \E m \in processed : j \in InvokesOf(m)

\* C2: in a stop run without --only, every target that lists the target of
\* a stop job J in its Dependencies has a stop job too, and that job's
\* completion is processed before J is dispatched.
C2_DependantsStopFirst ==
    (Built /\ stop /\ ~ignoreDependencies) =>
        \A j \in DOMAIN jobs :
            \A t \in DependantsOf(j) :
                /\ t \in DOMAIN jobs
                /\ jobs[t].mode = TargetStop
                /\ jobs[j].startedAt => t \in processed

\* a, b (depends on a), c (depends on b), stop a: all three were stopped.
C2_Witness ==
    /\ stop /\ ~ignoreDependencies
    /\ expandedTargets = <<"a">>
    /\ targets[1].Dependencies = <<>>
    /\ targets[2].Dependencies = <<"a">>
    /\ targets[3].Dependencies = <<"b">>
    /\ pc = "ok"
    /\ processed = {"a", "b", "c"}

\* C3: while an exclusive job (runner shell) is in flight no other job is
\* in flight, and d.isExclusiveRunning is set exactly while an exclusive job
\* is in flight (so no job is dispatched while it is set).
C3_MutualExclusion ==
    Built =>
        /\ \A j \in DOMAIN jobs :
              (InFlight(j) /\ ExclusiveJob(j)) =>
                  /\ isExclusiveRunning
                  /\ \A k \in DOMAIN jobs \ {j} : ~InFlight(k)
        /\ isExclusiveRunning =>
              \E j \in DOMAIN jobs : InFlight(j) /\ ExclusiveJob(j)

\* An exclusive job is in flight while another job, with no unmet
\* prerequisite, waits; an exclusive job and another job have both run.
C3_Witness ==
    /\ pc = "run"
    /\ \E j \in DOMAIN jobs :
          /\ InFlight(j) /\ ExclusiveJob(j)
          /\ \E k \in DOMAIN jobs \ {j} :
                ~jobs[k].startedAt /\ jobs[k].dependencyCount = 0
    /\ \E k \in processed : ~ExclusiveJob(k)

\* C4: a target is given at most one Job per run, however often it is
\* reached, and that job is dispatched at most once.
C4_OneJobPerTarget ==
    \A n \in Range(NameOrder) :
        /\ allocated[n] <= 1
        /\ dispatched[n] <= 1
        /\ (n \in DOMAIN jobs) <=> (allocated[n] = 1)
        /\ Started(n) <=> (dispatched[n] = 1)

\* A target reached three times (as a root, as a dependency of two targets)
\* and once more by an Invokes expansion has been dispatched.
C4_Witness ==
    \E n \in Range(expandedTargets) :
        /\ dispatched[n] = 1
        /\ Len(jobs[n].dependentJobs) >= 1
        /\ \E m \in processed : m # n /\ n \in InvokesOf(m) /\ n \notin DependenciesOf(m)

----------------------------------------------------------------------------
\* Reachability in the configuration

\* S and every target reached from S along Dependencies.
RECURSIVE DependencyClosure(_)
DependencyClosure(S) ==
    LET N == S \cup UNION {DependenciesOf(n) : n \in S \cap DOMAIN targetMap}
    IN  IF N = S THEN S ELSE DependencyClosure(N)

\* S and every target from which S is reached along Dependencies.
RECURSIVE DependantClosure(_)
DependantClosure(S) ==
    LET N == S \cup UNION {DependantsOf(n) : n \in S}
    IN  IF N = S THEN S ELSE DependantClosure(N)

TransitiveDependencies(n) == DependencyClosure(DependenciesOf(n))

OnCycle(n) == n \in TransitiveDependencies(n)

Acyclic == \A n \in Names : ~OnCycle(n)

\* The targets the builder visits from the requested targets when it
\* follows edges: dependencies in a start run, dependants in a stop run.
Visited ==
    IF stop THEN DependantClosure(Range(expandedTargets))
    ELSE DependencyClosure(Range(expandedTargets))

CycleJobs == {n \in Visited \cap Names : OnCycle(n)}

UnknownDependencies ==
    {ik \in (1..Len(targets)) \X (1..MaxEdges) :
        /\ ik[2] <= Len(targets[ik[1]].Dependencies)
        /\ targets[ik[1]].Dependencies[ik[2]] \notin Names}

\* a, b (depends on a), c (depends on b)
ChainCatalog ==
    /\ targets[1].Dependencies = <<>>
    /\ targets[2].Dependencies = <<"a">>
    /\ targets[3].Dependencies = <<"b">>

----------------------------------------------------------------------------
\* C5: when a start run without --only ends successfully (runAllJobs
\* returned, didError is false, hasCompleted is true), every transitive
\* dependency of every requested target has a job that was dispatched and
\* completed with err == nil.
C5_SuccessMeansDependenciesRan ==
    (pc \in {"returned", "ok"} /\ ~stop /\ ~ignoreDependencies
        /\ ~didError /\ hasCompleted) =>
        \A r \in Range(expandedTargets) :
            \A d \in TransitiveDependencies(r) :
                /\ d \in DOMAIN jobs
                /\ jobs[d].startedAt
                /\ jobs[d].completedAt
                /\ d \in processed
                /\ ~jobs[d].err

\* A start run ended successfully for a requested target with a dependency
\* that has a dependency itself.
C5_Witness ==
    /\ pc = "ok" /\ ~stop /\ ~ignoreDependencies
    /\ \E r \in Range(expandedTargets) :
          /\ Cardinality(TransitiveDependencies(r)) = 2
          /\ Cardinality(DependenciesOf(r)) = 1
          /\ TransitiveDependencies(r) \cap Range(expandedTargets) = {}

C7_ErrorStopsScheduling ==
    [][/\ didError =>
            /\ dispatched' = dispatched
            /\ startedJobs' = startedJobs
            /\ processed' = processed
            /\ completedJobs' = completedJobs
            /\ DOMAIN jobs' = DOMAIN jobs
            /\ pc = "run" => pc' \in {"run", "returned"}
       /\ \A p \in DOMAIN jobs' :
            jobs'[p].err =>
                \A j \in Range(jobs'[p].dependentJobs) : ~jobs'[j].startedAt
      ]_vars

\* main exited after an error of a job that another job waited for, while
\* a third job was still running.
C7_Witness ==
    /\ pc = "failed"
    /\ \E j \in DOMAIN jobs : InFlight(j) /\ ~jobs[j].completedAt
    /\ \E p \in processed : jobs[p].err /\ jobs[p].dependentJobs # <<>>

\* C8: in a start run over an acyclic configuration whose Invokes all name
\* targets, when the run has ended and no job failed, every target named in
\* the Invokes of a completed job has a job and that job was dispatched.
C8_InvokedJobsDispatched ==
    (pc \in {"ok", "deadlocked"} /\ ~stop /\ Acyclic
        /\ \A n \in Names : InvokesOf(n) \subseteq Names) =>
        \A a \in processed :
            \A b \in InvokesOf(a) :
                b \in DOMAIN jobs /\ jobs[b].startedAt

\* C9 as claimed: with a, b (depends on a), c (depends on b), a stop run
\* whose only requested target is c stops c, then b, then a.
C9_StopCStopsAll ==
    (ChainCatalog /\ stop /\ ~ignoreDependencies
        /\ expandedTargets = <<"c">> /\ pc = "ok") =>
        /\ DOMAIN jobs = {"a", "b", "c"}
        /\ processed = {"a", "b", "c"}

\* C9 as amended: with a, b (depends on a), c (depends on b), a stop run
\* whose only requested target is c has a stop job for c alone; the order
\* c, then b, then a is that of the stop run whose requested target is a.
C9_StopCStopsOnlyC ==
    (ChainCatalog /\ stop /\ ~ignoreDependencies /\ Built) =>
        /\ expandedTargets = <<"c">> =>
              /\ DOMAIN jobs = {"c"}
              /\ pc = "ok" => processed = {"c"}
        /\ expandedTargets = <<"a">> =>
              /\ DOMAIN jobs = {"a", "b", "c"}
              /\ jobs["b"].startedAt => "c" \in processed
              /\ jobs["a"].startedAt => "b" \in processed

\* The stop run of c over the chain ended successfully.
C9_Witness ==
    /\ ChainCatalog /\ stop /\ ~ignoreDependencies
    /\ expandedTargets = <<"c">>
    /\ pc = "ok"
    /\ processed = {"c"}

\* C10: with --only the builder follows no edge: the jobs at the start of
\* the run are those of the requested targets, every job has
\* dependencyCount 0 and no dependent job, and a requested target that is
\* not yet dispatched is held back by the exclusivity gate only.
C10_OnlyIgnoresEdges ==
    (ignoreDependencies /\ Built) =>
        /\ (startedJobs = 0 /\ completedJobs = 0) =>
              DOMAIN jobs = Range(expandedTargets)
        /\ \A j \in DOMAIN jobs :
              jobs[j].dependencyCount = 0 /\ jobs[j].dependentJobs = <<>>
        /\ (pc = "run" /\ loopContinues) =>
              \A j \in Range(expandedTargets) :
                  ~jobs[j].startedAt =>
                      \/ j \in NextJobs
                      \/ isExclusiveRunning
                      \/ (ExclusiveJob(j) /\ hasRunningJobs)

\* With --only, a target was started although its dependency has no job.
C10_Witness ==
    /\ ignoreDependencies /\ ~stop
    /\ \E j \in DOMAIN jobs :
          /\ jobs[j].startedAt
          /\ DependenciesOf(j) \ DOMAIN jobs # {}


----------------------------------------------------------------------------
\* Claims about runJob and the runners

\* The job of rj is a start job with a command.
StartWithCommand == rj.mode = TargetStart /\ rj.target.Command # ""

\* The checks made of the address at k, in the order they were made.
ProbesOf(k) == SelectSeq(rj.probes, LAMBDA p : p.k = k)

\* C11: for a start job with a command whose backend start succeeded, the
\* addresses of Listens are probed in list order, each from check 0 on and
\* left at its first ready check; the sleep after a check i that found the
\* address not ready is 50ms * 2^i; an address not ready on every check is
\* checked exactly 10 times (check 0 to 9) and then the job fails with
\* "service didn't listen to" and no later address is probed; the job
\* succeeds only if every address was found ready within its 10 checks; and
\* when the backend start fails no probe is made.
C11_ProbeBound ==
    LET n == Len(rj.probes)
        notReady == SelectSeq(rj.probes, LAMBDA p : ~p.listens)
    IN
    /\ n > 0 =>
          /\ StartWithCommand /\ rj.at \in {"probe", "done"}
          /\ rj.probes[1].k = 1 /\ rj.probes[1].i = 0
    /\ \A m \in 1..(n - 1) :
          LET p == rj.probes[m]
              q == rj.probes[m + 1]
          IN  /\ ~p.err
              /\ IF p.listens THEN q.k = p.k + 1 /\ q.i = 0
                 ELSE q.k = p.k /\ q.i = p.i + 1
    /\ \A m \in 1..n : rj.probes[m].i < 10 /\ rj.probes[m].k <= Len(rj.target.Listens)
    /\ StartWithCommand =>
          /\ Len(rj.sleeps) = Len(notReady)
          /\ \A m \in 1..Len(notReady) : rj.sleeps[m] = 50 * (2 ^ (notReady[m].i))
    /\ (rj.at = "done" /\ rj.err = "nolisten") =>
          /\ n >= 10
          /\ Len(ProbesOf(rj.probes[n].k)) = 10
          /\ \A p \in Range(ProbesOf(rj.probes[n].k)) : ~p.listens /\ ~p.err
          /\ SubSeq(rj.sleeps, Len(rj.sleeps) - 9, Len(rj.sleeps))
                = <<50, 100, 200, 400, 800, 1600, 3200, 6400, 12800, 25600>>
          /\ rj.k = rj.probes[n].k
    /\ (StartWithCommand /\ n > 0 /\ ~rj.probes[n].listens /\ rj.probes[n].i = 9
          /\ rj.at = "done") => rj.err = "nolisten"
    /\ (StartWithCommand /\ rj.at = "done" /\ rj.err = "") =>
          \A k \in 1..Len(rj.target.Listens) :
             \E p \in Range(ProbesOf(k)) : p.listens /\ ~p.err /\ p.i < 10
    /\ rj.err \in {"exit", "user"} => n = 0

\* The first address was found ready at a later check and the second one
\* never: the job failed after ten checks of it.
C11_Witness ==
    /\ rj.at = "done" /\ rj.err = "nolisten"
    /\ Len(rj.target.Listens) = 2 /\ rj.k = 2
    /\ Len(ProbesOf(1)) > 1
    /\ Len(ProbesOf(2)) = 10


\* C14 as claimed: a dial error other than connection-refused does not end
\* the probe of a host:port address; the job fails only when the 10
\* attempts are used up, with "service didn't listen to".
C14_DialErrorRetried ==
    \A m \in 1..Len(rj.probes) :
       (rj.probes[m].outcome = "timeout" /\ rj.at = "done") =>
          /\ rj.err \in {"", "nolisten"}
          /\ rj.err = "nolisten" => Len(ProbesOf(rj.probes[Len(rj.probes)].k)) = 10

\* C14: in the probe of a host:port address a dial error other than
\* connection-refused ends the probe at once: it is the last check made,
\* no sleep follows it, and the job fails with the dial error; only a
\* refused connection is retried.
C14_DialErrorEndsProbe ==
    LET n == Len(rj.probes) IN
    /\ \A m \in 1..n :
          rj.probes[m].outcome = "timeout" =>
             /\ m = n
             /\ rj.target.Listens[rj.probes[m].k] = TcpAddr
             /\ rj.at = "done" /\ rj.err = "dial"
             /\ Len(rj.sleeps) = Cardinality({q \in 1..(n - 1) : ~rj.probes[q].listens})
    /\ rj.err = "dial" => n > 0 /\ rj.probes[n].outcome = "timeout"
    /\ \A m \in 1..n :
          (rj.probes[m].outcome = "refused" /\ rj.probes[m].i < 9 /\ m < n) =>
             rj.probes[m + 1].k = rj.probes[m].k /\ rj.probes[m + 1].i = rj.probes[m].i + 1

\* After refused connections the dial of an address timed out on an
\* attempt before the tenth, and the job failed with that error.
C14_Witness ==
    /\ rj.at = "done" /\ rj.err = "dial"
    /\ Len(rj.probes) > 1
    /\ rj.probes[Len(rj.probes)].outcome = "timeout"
    /\ rj.probes[Len(rj.probes)].i \in 1..8
    /\ rj.probes[Len(rj.probes) - 1].outcome = "refused"


\* The job of rj is run by launchd and has a command.
LaunchdJob == rj.target.Runner = "launchd" /\ rj.target.Command # ""

\* C16: launchd start succeeds (runJob goes on to the probes) when
\* bootstrap exits with 0 or 34048 and fails for every other status;
\* launchd stop repeats bootout while the status is 9216, sleeping
\* expSleepTime(i) = 50ms * 2^i before retry i+1, never returns on a 9216
\* status, and on the first other status returns success iff it is 0 or 768.
C16_LaunchdStatuses ==
    LET n == Len(rj.statuses) IN
    /\ (LaunchdJob /\ rj.mode = TargetStart /\ n > 0) =>
          /\ n = 1
          /\ IF rj.statuses[1] \in {0, 34048}
             THEN rj.at = "probe" \/ (rj.at = "done" /\ rj.err \in {"", "nolisten", "dial"})
             ELSE rj.at = "done" /\ rj.err = "exit" /\ rj.probes = <<>>
    /\ (LaunchdJob /\ rj.mode = TargetStop) =>
          /\ \A m \in 1..(n - 1) : rj.statuses[m] = 9216
          /\ LET retries == Cardinality({m \in 1..n : rj.statuses[m] = 9216}) IN
             /\ Len(rj.sleeps) = retries
             /\ \A m \in 1..retries : rj.sleeps[m] = 50 * (2 ^ (m - 1))
          /\ (n > 0 /\ rj.statuses[n] = 9216) => rj.at \in {"bootout", "panic"}
          /\ (n > 0 /\ rj.statuses[n] # 9216) =>
                /\ rj.at = "done"
                /\ rj.err = "" <=> rj.statuses[n] \in {0, 768}
                /\ rj.err # "" => rj.err = "exit"

\* launchd stop saw 9216 twice and then 768, and returned success.
C16_Witness ==
    /\ LaunchdJob /\ rj.mode = TargetStop
    /\ rj.at = "done" /\ rj.err = ""
    /\ rj.statuses = <<9216, 9216, 768>>
    /\ rj.sleeps = <<50, 100>>



----------------------------------------------------------------------------
\* Claims about validateTargets

\* validateTargets has run.
Validated == pc # "validate"

\* The number of errors of one kind.
ErrorCount(kind) == Cardinality({m \in 1..Len(errs) : errs[m].kind = kind})

\* Positions of the targets with a name.
Named == {i \in 1..Len(targets) : targets[i].Name # ""}

\* Positions of the targets whose name is that of an earlier target.
Duplicates ==
    {i \in Named : \E j \in 1..(i - 1) : targets[j].Name = targets[i].Name}

\* The occurrences, in the Dependencies lists, of names of no target.
UnknownOccurrences ==
    {<<i, k>> \in (1..Len(targets)) \X (1..MaxDeps + 1) :
        /\ k <= Len(targets[i].Dependencies)
        /\ \A j \in Named : targets[j].Name # targets[i].Dependencies[k]}

\* The number of entries of the sequence q that are x.
Occurrences(q, x) == Cardinality({k \in 1..Len(q) : q[k] = x})

\* The target at u is the one its name resolves to: the last with that name.
Resolves(u) ==
    /\ u \in Named
    /\ \A j \in Named : targets[j].Name = targets[u].Name => j <= u

\* C12 as claimed: the validator produces one error for each target without
\* name, each duplicate name, each invalid runner, each non-shell target
\* with empty command and each dependency naming an unknown target.
C12_OneErrorForEach ==
    Validated =>
       Len(errs) =
            Cardinality((1..Len(targets)) \ Named)
          + Cardinality(Duplicates)
          + Cardinality({i \in 1..Len(targets) : targets[i].Runner \notin {"shell", "tmux", "launchd"}})
          + Cardinality({i \in 1..Len(targets) :
                           targets[i].Runner \in {"tmux", "launchd"} /\ targets[i].Command = ""})
          + Cardinality(UnknownOccurrences)

\* C12: the validator never stops at the first error: it produces one error
\* for each target without name, and, for the targets with a name only, one
\* for each duplicate name, one for each invalid runner and one for each
\* tmux or launchd target with empty command, and one for each entry of a
\* Dependencies list naming no target; it reports no error exactly when
\* names are non-empty and unique, every runner is shell, tmux or launchd,
\* every non-shell target has a command and every dependency resolves; and
\* T is in U.dependants once per occurrence of U's name in T.Dependencies
\* when U is the target that name resolves to, and not at all otherwise.
C12_ErrorsAndDependants ==
    Validated =>
       /\ ErrorCount("noname") = Cardinality((1..Len(targets)) \ Named)
       /\ ErrorCount("duplicate") + ErrorCount("duplicate2") = Cardinality(Duplicates)
       /\ ErrorCount("runner") =
             Cardinality({i \in Named : targets[i].Runner \notin {"shell", "tmux", "launchd"}})
       /\ ErrorCount("command") =
             Cardinality({i \in Named :
                            targets[i].Runner \in {"tmux", "launchd"} /\ targets[i].Command = ""})
       /\ ErrorCount("unknown") = Cardinality(UnknownOccurrences)
       /\ Len(errs) = ErrorCount("noname") + ErrorCount("duplicate") + ErrorCount("duplicate2")
                      + ErrorCount("runner") + ErrorCount("command") + ErrorCount("unknown")
       /\ errs = <<>> <=>
             /\ Named = 1..Len(targets)
             /\ Duplicates = {}
             /\ \A i \in 1..Len(targets) :
                   /\ targets[i].Runner \in {"shell", "tmux", "launchd"}
                   /\ targets[i].Runner # "shell" => targets[i].Command # ""
                   /\ \A k \in 1..Len(targets[i].Dependencies) :
                         \E j \in 1..Len(targets) : targets[j].Name = targets[i].Dependencies[k]
       /\ \A u \in 1..Len(targets), t \in 1..Len(targets) :
             Occurrences(dependants[u], t) =
                IF Resolves(u) THEN Occurrences(targets[t].Dependencies, targets[u].Name)
                ELSE 0

\* A list with a target without name and without valid runner, and a
\* target that names itself twice and is twice among its own dependants:
\* the only error is the one for the missing name.
C12_Witness ==
    /\ Validated
    /\ Len(targets) = 2
    /\ targets[1].Name = "" /\ targets[1].Runner = "bogus"
    /\ targets[2].Dependencies = <<"a", "a">> /\ dependants[2] = <<2, 2>>
    /\ Len(errs) = 1


----------------------------------------------------------------------------
\* Claims about the expansion of Invokes and the dependency counts

\* The targets a start run has created jobs for when createStartJob was
\* called for the names of S.
StartJobsFor(S) == IF ignoreDependencies THEN S ELSE DependencyClosure(S)

\* The jobs handed to didComplete without error, and with any outcome.
ProcessedOk == {j \in processed : ~jobs[j].err}
InvokedBy(P) == UNION {InvokesOf(j) : j \in P}

\* A start run that has built its first jobs and has not crashed.
StartRunning == ~stop /\ Built /\ pc # "panic"

\* C13 as claimed: the jobs of a start run are those of the requested
\* targets and of the Invokes of the jobs completed without error: the
\* completion of a failed job adds no job.
C13_FanOutOnSuccessOnly ==
    StartRunning =>
       DOMAIN jobs = StartJobsFor(Range(expandedTargets) \cup InvokedBy(ProcessedOk))

\* C13: the jobs of a start run are those of the requested targets and of
\* the Invokes of every job whose completion was processed, failed or not:
\* didComplete creates the jobs for Invokes also when err is not nil. The
\* jobs that only a failed job made are never dispatched.
C13_FanOutOnEveryCompletion ==
    StartRunning =>
       /\ DOMAIN jobs = StartJobsFor(Range(expandedTargets) \cup InvokedBy(processed))
       /\ \A n \in DOMAIN jobs \ StartJobsFor(Range(expandedTargets) \cup InvokedBy(ProcessedOk)) :
             didError /\ ~jobs[n].startedAt

\* A requested target failed and the job of the target it invokes, which
\* nothing else asked for, is in the job map, never dispatched.
C13_Witness ==
    /\ StartRunning /\ pc = "failed"
    /\ \E j \in processed, n \in DOMAIN jobs :
          /\ expandedTargets = <<j>> /\ processed = {j}
          /\ jobs[j].err
          /\ n \in InvokesOf(j)
          /\ n \notin StartJobsFor({j})
          /\ ~jobs[n].startedAt


\* The recorded prerequisite edges of the job j whose upstream job has not
\* been handed to didComplete: the places of j in the dependentJobs lists
\* of those jobs.
UnmetEdges(j) ==
    {<<u, k>> \in (DOMAIN jobs \ processed) \X (1..Len(NameOrder)) :
        k <= Len(jobs[u].dependentJobs) /\ jobs[u].dependentJobs[k] = j}

\* C15: in every state of the controller and for every job J of the job
\* map, also one created by the expansion of Invokes, J.dependencyCount is
\* the number of prerequisite edges recorded for J whose upstream job's
\* completion has not been processed by didComplete; it is never negative.
C15_DependencyCount ==
    (Built /\ pc # "panic") =>
       \A j \in DOMAIN jobs :
          /\ jobs[j].dependencyCount >= 0
          /\ jobs[j].dependencyCount = Cardinality(UnmetEdges(j))


----------------------------------------------------------------------------
\* Claims about the fields shared by the controller and the workers

\* The job map with other values in the fields of the job j.
WithFields(j, s, c, e) ==
    [jobs EXCEPT ![j].startedAt = s, ![j].completedAt = c, ![j].err = e]

\* C17 as claimed: between the dispatch of a job and the receipt of its
\* completion the controller reads none of its startedAt, completedAt and
\* err: what nextJob returns does not depend on them.
C17_InFlightFieldsUnread ==
    pc = "run" =>
       \A j \in DOMAIN jobs :
          InFlight(j) =>
             \A s \in BOOLEAN, c \in BOOLEAN, e \in BOOLEAN :
                NextJobsOf(WithFields(j, s, c, e)) = NextJobsOf(jobs)

\* A step of a worker: a job is sent on the completion channel.
WorkerStep == completion' # completion /\ completion \subseteq completion'

\* C17: between the dispatch of a job and the receipt of its completion the
\* controller reads neither its completedAt nor its err, and writes none of
\* startedAt, completedAt and err; it does read startedAt, in nextJob, which
\* only the controller writes. The worker writes completedAt and err of its
\* own job, and nothing else, with its single send, and the controller
\* receives only jobs whose completedAt is written. Counters, didError,
\* isExclusiveRunning, the job map and dependencyCount change in steps of
\* the controller only.
C17_Ownership ==
    [][ /\ pc = "run" =>
             \A j \in DOMAIN jobs :
                InFlight(j) =>
                   /\ \A c \in BOOLEAN, e \in BOOLEAN :
                         NextJobsOf(WithFields(j, TRUE, c, e)) = NextJobsOf(jobs)
                   /\ NextJobsOf(WithFields(j, FALSE, jobs[j].completedAt, jobs[j].err))
                         \in {NextJobsOf(jobs), NextJobsOf(jobs) \cup {j}}
        /\ \A j \in completion : jobs[j].completedAt /\ InFlight(j)
        /\ ~WorkerStep =>
             \A j \in DOMAIN jobs :
                (InFlight(j) /\ j \notin processed' /\ pc' # "panic") =>
                   /\ jobs'[j].startedAt = jobs[j].startedAt
                   /\ jobs'[j].completedAt = jobs[j].completedAt
                   /\ jobs'[j].err = jobs[j].err
        /\ WorkerStep =>
             \E j \in DOMAIN jobs :
                /\ InFlight(j) /\ ~jobs[j].completedAt /\ j \notin completion
                /\ completion' = completion \cup {j}
                /\ jobs'[j].completedAt
                /\ \E e \in BOOLEAN :
                      jobs' = [jobs EXCEPT ![j].completedAt = TRUE, ![j].err = e]
                /\ UNCHANGED <<startedJobs, completedJobs, didError,
                               isExclusiveRunning, processed, pc>>
      ]_vars

\* Two jobs are in flight: the worker of one has written a failure and sent
\* the job, the other is still running, and the controller waits.
C17_Witness ==
    /\ pc = "run"
    /\ \E j \in completion, k \in DOMAIN jobs :
          /\ j # k /\ InFlight(j) /\ InFlight(k)
          /\ jobs[j].completedAt /\ jobs[j].err
          /\ ~jobs[k].completedAt
    /\ NextJobs = {}


----------------------------------------------------------------------------
\* Claims about the outcome of a run

\* C18: for a validated catalog whose dependency relation is acyclic and
\* whose Invokes all name targets, a start or stop run in which no job
\* fails never ends with the deadlock message, and when it has ended every
\* job of the job map, also one added by the expansion of Invokes, was
\* dispatched and its completion processed.
C18_NoFalseDeadlock ==
    (Built /\ Acyclic /\ \A n \in Names : InvokesOf(n) \subseteq Names) =>
       /\ pc # "deadlocked"
       /\ pc = "ok" => \A j \in DOMAIN jobs : jobs[j].startedAt /\ j \in processed

\* C19: once validateTargets has returned no error, every job created
\* during a run, by the first build or by the expansion of Invokes, is the
\* job of a target of the catalog: job.target is never nil.
C19_JobsOfKnownTargets ==
    (Built /\ errs = <<>>) =>
       \A j \in DOMAIN jobs : j \in Names /\ jobs[j].target # 0

\* C20: a run of a validated catalog ends in one of three outcomes, all
\* jobs completed without error, an error observed, or deadlock, and has no
\* other way to end; while it runs, completedJobs <= startedJobs <= number
\* of jobs, and a completion waits on the channel to be received only
\* while its job is in flight.
C20_ThreeOutcomes ==
    Built =>
       /\ pc \in {"run", "returned", "ok", "failed", "deadlocked"}
       /\ completedJobs <= startedJobs
       /\ startedJobs <= Cardinality(DOMAIN jobs)
       /\ completion # {} => hasRunningJobs
       /\ pc = "ok" => hasCompleted /\ ~didError
       /\ pc = "failed" => didError
       /\ pc = "deadlocked" => ~hasCompleted /\ ~didError /\ ~hasRunningJobs /\ NextJobs = {}

====
